---- MODULE Spec2Model ----
(***************************************************************************)
(* A model of util.py: latlon_to_scrip (SCRIP grid generation),            *)
(* esmf_apply_weights (sparse weight application) and the regridder class  *)
(* (construction from two grid files and a weight file, regrid_dataarray). *)
(*                                                                         *)
(* Numbers.  A float is a pair <<n, d>>: the rational n/d in lowest terms  *)
(* (d > 0), or one of NaN = <<0,0>>, +inf = <<1,0>>, -inf = <<-1,0>>.      *)
(* Arithmetic is exact up to the magnitude FloatMax, past which a result   *)
(* overflows to an infinity as IEEE arithmetic does; rounding of the       *)
(* mantissa is not modelled.                                               *)
(*                                                                         *)
(* Arrays.  An ndarray is a record [shape, flat, layout]: flat holds the   *)
(* elements in logical (row-major) index order, which is the order         *)
(* reshape and ravel use whatever the memory layout; layout is "C" for a   *)
(* C-contiguous array, "strided" for a non-contiguous view whose axes are  *)
(* still in C order (a[..., ::2]) and "permuted" for a view whose axes are *)
(* reordered in memory (a transposed or Fortran-ordered array).            *)
(***************************************************************************)
EXTENDS Integers, Sequences, FiniteSets, TLC

\* ---------------------------------------------------------------- bounds
\* Largest finite float magnitude of the model (stands for float64's max).
FloatMax == 1000
\* Largest number of (row, col, S) triplets in a weight file.
MaxEntries == 2
\* Largest nx and ny given to latlon_to_scrip when grids are generated alone.
MaxN == 4

\* ---------------------------------------------------------------- floats
NaN == <<0, 0>>
PInf == <<1, 0>>
NInf == <<-1, 0>>

Abs(n) == IF n < 0 THEN -n ELSE n

Sign(n) == IF n < 0 THEN -1 ELSE IF n > 0 THEN 1 ELSE 0

RECURSIVE GCD(_, _)
GCD(a, b) == IF b = 0 THEN a ELSE GCD(b, a % b)

\* The float nearest n/d (d # 0): n/d in lowest terms, or an infinity past FloatMax.
Round(n, d) ==
    LET s == IF d < 0 THEN -1 ELSE 1
        nn == s * n
        dd == s * d
        g == GCD(Abs(nn), dd)
    IN  IF Abs(nn) > FloatMax * dd
        THEN (IF nn > 0 THEN PInf ELSE NInf)
        ELSE <<nn \div g, dd \div g>>

Num(k) == Round(k, 1)
Zero == <<0, 1>>
One == <<1, 1>>

IsNaN(x) == x = NaN
IsInf(x) == x = PInf \/ x = NInf
IsFinite(x) == x[2] > 0

\* x + y
FAdd(x, y) ==
    IF IsNaN(x) \/ IsNaN(y) THEN NaN
    ELSE IF IsInf(x) /\ IsInf(y) THEN (IF x = y THEN x ELSE NaN)
    ELSE IF IsInf(x) THEN x
    ELSE IF IsInf(y) THEN y
    ELSE Round(x[1] * y[2] + y[1] * x[2], x[2] * y[2])

\* x * y
FMul(x, y) ==
    IF IsNaN(x) \/ IsNaN(y) THEN NaN
    ELSE IF IsInf(x) \/ IsInf(y)
         THEN (IF x[1] = 0 \/ y[1] = 0 THEN NaN
               ELSE IF Sign(x[1]) * Sign(y[1]) > 0 THEN PInf ELSE NInf)
    ELSE Round(x[1] * y[1], x[2] * y[2])

\* x / y
FDiv(x, y) ==
    IF IsNaN(x) \/ IsNaN(y) THEN NaN
    ELSE IF IsInf(x) /\ IsInf(y) THEN NaN
    ELSE IF IsInf(x) THEN (IF Sign(x[1]) * (IF y[1] < 0 THEN -1 ELSE 1) > 0 THEN PInf ELSE NInf)
    ELSE IF IsInf(y) THEN Zero
    ELSE IF y[1] = 0
         THEN (IF x[1] = 0 THEN NaN ELSE IF x[1] > 0 THEN PInf ELSE NInf)
    ELSE Round(x[1] * y[2], x[2] * y[1])

\* x > 0.0 (False for NaN)
GtZero(x) == ~IsNaN(x) /\ x[1] > 0

\* The division of two finite floats overflows (IEEE overflow flag).
DivOverflows(x, y) ==
    IsFinite(x) /\ IsFinite(y) /\ y[1] # 0 /\ IsInf(FDiv(x, y))

\* ---------------------------------------------------------------- arrays
\* What an operation that produced no array leaves behind.
NoArray == [shape |-> <<>>, flat |-> <<>>, layout |-> "none"]

RECURSIVE Prod(_)
Prod(shape) == IF shape = <<>> THEN 1 ELSE Head(shape) * Prod(Tail(shape))

Reverse(s) == [k \in 1..Len(s) |-> s[Len(s) + 1 - k]]

\* a.reshape(rows, cols) of the elements in logical order, as a matrix M[r][c].
Reshape2D(flat, rows, cols) ==
    [r \in 1..rows |-> [c \in 1..cols |-> flat[(r - 1) * cols + c]]]

\* M.T
Transpose(M) == [c \in 1..Len(M[1]) |-> [r \in 1..Len(M) |-> M[r][c]]]

\* M.reshape(-1): the rows of M one after the other.
Ravel(M) ==
    [k \in 1..(Len(M) * Len(M[1])) |->
        M[((k - 1) \div Len(M[1])) + 1][((k - 1) % Len(M[1])) + 1]]

\* indata.flags['C_CONTIGUOUS']
C_CONTIGUOUS(a) == a.layout = "C"

\* The memory layout of the array a numpy elementwise operation (np.isnan,
\* np.where) allocates for an operand of this layout: it keeps the operand's
\* axis order (order='K'), so a strided view gives a C-contiguous result and
\* an axis-permuted one gives an axis-permuted, non-C-contiguous result.
KeepOrder(layout) == IF layout = "strided" THEN "C" ELSE layout

\* ------------------------------------------------- esmf_apply_weights
\* The names bound at module level: the imports and the three definitions.
ModuleGlobals ==
    {"os", "datetime", "sps", "np", "xr",
     "latlon_to_scrip", "esmf_apply_weights", "regridder"}

\* indata.shape[-2:] and indata.shape[0:-2]
ShapeHoriz(shape) ==
    IF Len(shape) <= 2 THEN shape ELSE SubSeq(shape, Len(shape) - 1, Len(shape))
ExtraShape(shape) ==
    IF Len(shape) <= 2 THEN <<>> ELSE SubSeq(shape, 1, Len(shape) - 2)

\* Element [r][e] (0-based) of weights.dot(indata_flat.T), indata_flat
\* having ncell columns: the stored entries 1..t of the COO matrix are
\* accumulated in storage order; entries that are not stored contribute
\* nothing, duplicates add up.
RECURSIVE CooDot(_, _, _, _, _, _)
CooDot(w, r, flat, ncell, e, t) ==
    IF t = 0 THEN Zero
    ELSE LET prev == CooDot(w, r, flat, ncell, e, t - 1)
         IN  IF w.row[t] = r
             THEN FAdd(prev, FMul(w.data[t], flat[e * ncell + w.col[t] + 1]))
             ELSE prev

\* esmf_apply_weights(weights, indata, shape_in, shape_out): what it raises
\* ("none" when it returns), the array it returns, and whether it warned.
\* Matrix elements are addressed 0-based, as in the code.
esmf_apply_weights(w, indata, shape_in, shape_out) ==
    LET failed(e) == [raised |-> e, value |-> NoArray, warned |-> FALSE]
        shape_horiz == ShapeHoriz(indata.shape)
        extra_shape == ExtraShape(indata.shape)
        ncell == shape_in[1] * shape_in[2]
        nout == shape_out[1] * shape_out[2]
        \* indata.reshape(-1, ncell)[e][k] is indata.flat[e * ncell + k + 1];
        \* weights.dot(indata_flat.T)[r][e], and its transpose [e][r]
        dot(r, e) == CooDot(w, r, indata.flat, ncell, e, Len(w.data))
        outdata_flat(e, r) == dot(r, e)
    IN  IF ~C_CONTIGUOUS(indata) /\ "warnings" \notin ModuleGlobals
        THEN failed("NameError")
        ELSE IF shape_horiz # shape_in THEN failed("AssertionError")
        ELSE IF shape_in[1] * shape_in[2] # w.shape[2] THEN failed("AssertionError")
        ELSE IF shape_out[1] * shape_out[2] # w.shape[1] THEN failed("AssertionError")
        ELSE [raised |-> "none",
              value |-> [shape |-> extra_shape \o <<shape_out[1], shape_out[2]>>,
                         flat |-> [k \in 1..(Prod(extra_shape) * nout) |->
                                      outdata_flat((k - 1) \div nout, (k - 1) % nout)],
                         layout |-> "C"],
              warned |-> ~C_CONTIGUOUS(indata)]

\* ---------------------------------------------------- latlon_to_scrip
\* The smallest integer >= x, for a finite x.
Ceil(x) == -((-x[1]) \div x[2])

\* np.arange(start, stop, step): ceil((stop - start) / step) values
\* start + k * step, none when that count is not positive.
\* Variant of Arange that includes the stop value when the steps reach it
\* (as np.linspace with endpoint=True does), giving one element more.
Arange_Inclusive(start, stop, step) ==
    LET n == Ceil(FDiv(FAdd(stop, FMul(Num(-1), start)), step)) + 1
    IN  [k \in 1..(IF n > 0 THEN n ELSE 0) |-> FAdd(start, FMul(Num(k - 1), step))]

Arange(start, stop, step) ==
    LET n == Ceil(FDiv(FAdd(stop, FMul(Num(-1), start)), step))
    IN  [k \in 1..(IF n > 0 THEN n ELSE 0) |-> FAdd(start, FMul(Num(k - 1), step))]

\* grid_imask=None
NoMask == <<>>

\* np.ones((ny, nx), dtype=np.int32)
Ones(ny, nx) == [j \in 1..ny |-> [i \in 1..nx |-> 1]]

\* latlon_to_scrip(nx, ny, lon0, grid_imask), file_out=None: the dataset it
\* returns, or the error it raises.  grid_imask is NoMask or a matrix of ny
\* rows and nx columns.  The corner and area fields are left out: in exact
\* arithmetic the areas sum to 4*pi for every nx, ny > 0, so the
\* assert_allclose on their sum passes.
latlon_to_scrip(nx, ny, lon0, grid_imask) ==
    LET dx == FDiv(Num(360), Num(nx))
        dy == FDiv(Num(180), Num(ny))
        lat == Arange(FAdd(Num(-90), FDiv(dy, Num(2))), Num(90), dy)
        lon == Arange(FAdd(lon0, FDiv(dx, Num(2))), FAdd(lon0, Num(360)), dx)
        y_center == [j \in 1..ny |-> [i \in 1..nx |-> lat[j]]]
        x_center == [j \in 1..ny |-> [i \in 1..nx |-> lon[i]]]
        imask == IF grid_imask = NoMask THEN Ones(ny, nx) ELSE grid_imask
    IN  IF Len(lat) # ny \/ Len(lon) # nx
        THEN [raised |-> "ValueError", grid_dims |-> <<>>, grid_center_lat |-> <<>>,
              grid_center_lon |-> <<>>, grid_imask |-> <<>>]
        ELSE [raised |-> "none",
              grid_dims |-> <<nx, ny>>,
              grid_center_lat |-> Ravel(y_center),
              grid_center_lon |-> Ravel(x_center),
              grid_imask |-> Ravel(imask)]

\* ------------------------------------------------------------ regridder
\* sps.coo_matrix((S, (row, col)), shape=shape)
coo_matrix(S, row, col, shape) ==
    [shape |-> shape, row |-> row, col |-> col, data |-> S]

\* regridder.__init__(src_grid_file, dst_grid_file, weight_file): the fields
\* of the new instance.
regridder_init(src, dst, mf) ==
    LET dims_src_ == Reverse(src.grid_dims)
        dims_dst_ == Reverse(dst.grid_dims)
        n_dst == Prod(dims_dst_)
        n_src == Prod(dims_src_)
        row == [t \in 1..Len(mf.row) |-> mf.row[t] - 1]
        col == [t \in 1..Len(mf.col) |-> mf.col[t] - 1]
    IN  [dims_src |-> dims_src_,
         dims_dst |-> dims_dst_,
         mask_dst |-> Transpose(Reshape2D(dst.grid_imask, dims_dst_[1], dims_dst_[2])),
         weights |-> coo_matrix(mf.S, row, col, <<n_dst, n_src>>)]

\* np.where(np.isnan(data_src), 0.0, 1.0)
FiniteIndicator(a) ==
    [shape |-> a.shape,
     flat |-> [k \in 1..Len(a.flat) |-> IF IsNaN(a.flat[k]) THEN Zero ELSE One],
     layout |-> KeepOrder(a.layout)]

\* Variant of NanToZero that leaves the not-a-number values in the source.
NanToZero_KeepNaN(a) ==
    [shape |-> a.shape, flat |-> a.flat, layout |-> KeepOrder(a.layout)]

\* np.where(np.isnan(data_src), 0.0, data_src)
NanToZero(a) ==
    [shape |-> a.shape,
     flat |-> [k \in 1..Len(a.flat) |-> IF IsNaN(a.flat[k]) THEN Zero ELSE a.flat[k]],
     layout |-> KeepOrder(a.layout)]

\* np.where(ones_dst > 0.0, ones_dst, np.nan), one element
PositiveOrNaN(o) == IF GtZero(o) THEN o ELSE NaN

\* One element of data_dst after the renormalization, from the remapped value
\* d and the remapped indicator o.
Renormalized(d, o) ==
    LET ones_dst == PositiveOrNaN(o)
    IN  IF GtZero(ones_dst) THEN FDiv(d, ones_dst) ELSE NaN

\* The division data_dst / ones_dst sets the overflow flag for some element.
RenormOverflows(data, ones) ==
    \E k \in 1..Len(data) : DivOverflows(data[k], PositiveOrNaN(ones[k]))

\* Variant of Where with the condition inverted (np.where's argument order).
Where_Inverted(v, cond) == IF cond # 0 THEN NaN ELSE v

\* One element of da_out.where(cond): kept where cond is true, else NaN.
Where(v, cond) == IF cond # 0 THEN v ELSE NaN

\* da_out.where(self.mask_dst.T): the mask, of shape dims_dst, is broadcast
\* over the leading dimensions.
ApplyMask(a, mask_dst_, dims) ==
    LET cond == Transpose(mask_dst_)
        ncell == dims[1] * dims[2]
    IN  [a EXCEPT !.flat =
            [k \in 1..Len(a.flat) |->
                Where(a.flat[k],
                      cond[(((k - 1) % ncell) \div dims[2]) + 1]
                          [(((k - 1) % ncell) % dims[2]) + 1])]]

\* regridder.regrid_dataarray(da_in, renormalize, apply_mask) on the instance
\* self, entered with numpy's error settings err.  The result records what
\* the call raises ("none" when it returns), the returned field, the error
\* settings it leaves in force, how often the weight operator was applied,
\* and the local data_dst as it is before the mask is applied.
regrid_dataarray(self, da_in, renormalize, apply_mask, err) ==
    LET ones_src == FiniteIndicator(da_in)
        data_src == IF renormalize THEN NanToZero(da_in) ELSE da_in
        r1 == esmf_apply_weights(self.weights, data_src, self.dims_src, self.dims_dst)
        ignoring == [err EXCEPT !.invalid = "ignore"]
        r2 == esmf_apply_weights(self.weights, ones_src, self.dims_src, self.dims_dst)
        renorm == [r1.value EXCEPT !.flat =
                      [k \in 1..Len(r1.value.flat) |->
                          Renormalized(r1.value.flat[k], r2.value.flat[k])]]
        data_dst == IF renormalize THEN renorm ELSE r1.value
        raise(e, settings, n) ==
            [raised |-> e, da_out |-> NoArray, errstate |-> settings, napplied |-> n,
             data_dst |-> NoArray]
    IN  IF r1.raised # "none" THEN raise(r1.raised, err, 0)
        ELSE IF renormalize /\ r2.raised # "none" THEN raise(r2.raised, ignoring, 1)
        ELSE IF renormalize /\ ignoring.over = "raise"
                /\ RenormOverflows(r1.value.flat, r2.value.flat)
        THEN raise("FloatingPointError", ignoring, 2)
        ELSE [raised |-> "none",
              da_out |-> IF apply_mask
                         THEN ApplyMask(data_dst, self.mask_dst, self.dims_dst)
                         ELSE data_dst,
              errstate |-> err,
              napplied |-> IF renormalize THEN 2 ELSE 1,
              data_dst |-> data_dst]

\* ---------------------------------------------------------------- state
VARIABLES
    src_grid_file,   \* the source grid dataset the regridder was built from
    dst_grid_file,   \* the destination grid dataset
    weight_file,     \* the weight table: aligned 1-based row, col and S
    dims_src,        \* regridder.dims_src, (ny, nx)
    dims_dst,        \* regridder.dims_dst, (ny, nx)
    mask_dst,        \* regridder.mask_dst
    weights,         \* regridder.weights, a COO matrix
    errstate,        \* numpy's global floating-point error settings
    pc,              \* "idle", or how the last call ended: "returned", "raised"
    call             \* the arguments and the result of the last call

vars == <<src_grid_file, dst_grid_file, weight_file, dims_src, dims_dst,
          mask_dst, weights, errstate, pc, call>>

self_vars == <<dims_src, dims_dst, mask_dst, weights>>
file_vars == <<src_grid_file, dst_grid_file, weight_file>>

NoCall == [op |-> "none"]
NoFile == <<>>

\* ---------------------------------------------------------------- inputs
\* grid_dims ([nx, ny]) of the source and of the destination grid.
SrcGridDims == {<<2, 1>>}
DstGridDims == {<<2, 1>>, <<1, 2>>}

\* Masks of a destination grid of ny rows and nx columns: nothing masked
\* (NoMask: latlon_to_scrip's default), or the first cell masked.
DstMasks(nx, ny) ==
    {NoMask, [j \in 1..ny |-> [i \in 1..nx |-> IF j = 1 /\ i = 1 THEN 0 ELSE 1]]}

\* Weight values of a weight file.
WeightValues == {Round(-1, 2), Num(1)}

\* x <= y for finite floats
Leq(x, y) == x[1] * y[2] <= y[1] * x[2]

\* Triplets in the order a weight file lists them: by row, then col, then S
\* (two entries of one matrix element differ in S).
TripletLeq(a, b) ==
    \/ a[1] < b[1]
    \/ a[1] = b[1] /\ a[2] < b[2]
    \/ a[1] = b[1] /\ a[2] = b[2] /\ a[3] # b[3] /\ Leq(a[3], b[3])

\* Weight files for n_dst destination and n_src source cells: at most
\* MaxEntries different triplets, listed in order.
WeightFiles(n_dst, n_src) ==
    LET Triplets == (1..n_dst) \X (1..n_src) \X WeightValues
        Tables == {e \in UNION {[1..n -> Triplets] : n \in 0..MaxEntries} :
                      \A t \in 1..(Len(e) - 1) : TripletLeq(e[t], e[t + 1])}
    IN  {[row |-> [t \in 1..Len(e) |-> e[t][1]],
          col |-> [t \in 1..Len(e) |-> e[t][2]],
          S |-> [t \in 1..Len(e) |-> e[t][3]]] : e \in Tables}

\* Values of a field's cells: missing, zero, and the largest finite value.
DataValues == {NaN, Num(0), Num(FloatMax)}

\* The memory layouts an array of this shape can have: an array with at most
\* one element is C-contiguous, and permuting the axes changes the layout
\* only when two axes are longer than 1.
Layouts(shape) ==
    {"C"}
    \cup (IF Prod(shape) > 1 THEN {"strided"} ELSE {})
    \cup (IF Cardinality({a \in 1..Len(shape) : shape[a] > 1}) > 1
          THEN {"permuted"} ELSE {})

\* Arrays of a shape with elements from a set of values.
Arrays(shape, values) ==
    {[shape |-> shape, flat |-> f, layout |-> l] :
        f \in [1..Prod(shape) -> values], l \in Layouts(shape)}

\* The leading dimension of the stacked fields.
LeadShape == <<2>>

\* The fields given to regrid_dataarray: the two-dimensional fields of the
\* source grid's shape, stacks of two such fields whose cells are missing or
\* hold the largest value, and fields of another horizontal shape.
InputFields ==
    UNION {Arrays(Reverse(g), DataValues)
           \cup Arrays(LeadShape \o Reverse(g), {NaN, Num(FloatMax)}) : g \in SrcGridDims}
    \cup UNION {Arrays(g, {Num(0)}) \cup Arrays(LeadShape \o g, {Num(0)}) : g \in SrcGridDims}

\* Settings of np.seterr the caller chooses: numpy's default, and a strict one.
ErrDefault == [over |-> "warn", invalid |-> "warn"]
ErrStrict == [over |-> "raise", invalid |-> "raise"]
ErrSettings == {ErrDefault, ErrStrict}

\* ------------------------------------------------------ regridder spec
\* The fields of a grid dataset that the regridder reads.
GridFile(ds) == [grid_dims |-> ds.grid_dims, grid_imask |-> ds.grid_imask]

\* A regridder built from two generated grids and a weight file.
Init ==
    \E sd \in SrcGridDims, dd \in DstGridDims :
    \E m \in DstMasks(dd[1], dd[2]) :
    \E mf \in WeightFiles(dd[1] * dd[2], sd[1] * sd[2]) :
        LET src == GridFile(latlon_to_scrip(sd[1], sd[2], Num(-180), NoMask))
            dst == GridFile(latlon_to_scrip(dd[1], dd[2], Num(-180), m))
            self == regridder_init(src, dst, mf)
        IN  /\ src_grid_file = src
            /\ dst_grid_file = dst
            /\ weight_file = mf
            /\ dims_src = self.dims_src
            /\ dims_dst = self.dims_dst
            /\ mask_dst = self.mask_dst
            /\ weights = self.weights
            /\ errstate = ErrDefault
            /\ pc = "idle"
            /\ call = NoCall

Self == [dims_src |-> dims_src, dims_dst |-> dims_dst,
         mask_dst |-> mask_dst, weights |-> weights]

\* Variant of SelfAfterRegrid in which the call stores the transposed mask
\* back into the instance (self.mask_dst = self.mask_dst.T).
SelfAfterRegrid_TransposedMask(self) ==
    [self EXCEPT !.mask_dst = Transpose(self.mask_dst)]

\* The instance after a call of regrid_dataarray: the method assigns no
\* attribute of self and changes none of its arrays in place.
SelfAfterRegrid(self) == self

\* The caller changes numpy's error settings between calls.
SetErr ==
    /\ pc = "idle"
    /\ \E e \in ErrSettings : e # errstate /\ errstate' = e
    /\ UNCHANGED <<file_vars, self_vars, pc, call>>

\* One call of regrid_dataarray, from entry to return or raise.
Regrid ==
    /\ pc = "idle"
    /\ call.op = "none"
    /\ \E da_in \in InputFields, renormalize \in BOOLEAN, apply_mask \in BOOLEAN :
           LET r == regrid_dataarray(Self, da_in, renormalize, apply_mask, errstate)
           IN  /\ call' = [op |-> "regrid_dataarray", da_in |-> da_in,
                           renormalize |-> renormalize, apply_mask |-> apply_mask,
                           err_entry |-> errstate, result |-> r]
               /\ errstate' = r.errstate
               /\ pc' = IF r.raised = "none" THEN "returned" ELSE "raised"
    /\ LET after == SelfAfterRegrid(Self)
       IN  /\ dims_src' = after.dims_src
           /\ dims_dst' = after.dims_dst
           /\ mask_dst' = after.mask_dst
           /\ weights' = after.weights
    /\ UNCHANGED file_vars

\* The caller takes the result (or handles the error) and goes on.
Collect ==
    /\ pc \in {"returned", "raised"}
    /\ pc' = "idle"
    /\ call' = NoCall
    /\ UNCHANGED <<file_vars, self_vars, errstate>>

Next == SetErr \/ Regrid \/ Collect

Spec == Init /\ [][Next]_vars

\* ------------------------------------------------- grid generation spec
\* Left grid boundaries given to latlon_to_scrip.
Lon0s == {Num(-180), Num(-90), Round(-361, 2), Num(0), Num(20), Num(180)}

\* Masks given to latlon_to_scrip: none (the default), or everything masked.
GridMasks(nx, ny) == {NoMask, [j \in 1..ny |-> [i \in 1..nx |-> 0]]}

\* No regridder exists; grids are generated one after the other.
InitGrid ==
    /\ src_grid_file = NoFile
    /\ dst_grid_file = NoFile
    /\ weight_file = NoFile
    /\ dims_src = <<>>
    /\ dims_dst = <<>>
    /\ mask_dst = <<>>
    /\ weights = NoFile
    /\ errstate = ErrDefault
    /\ pc = "idle"
    /\ call = NoCall

\* One call of latlon_to_scrip(nx, ny, lon0, grid_imask).
Generate ==
    /\ pc = "idle"
    /\ \E nx \in 1..MaxN, ny \in 1..MaxN, lon0 \in Lon0s :
       \E m \in GridMasks(nx, ny) :
           LET ds == latlon_to_scrip(nx, ny, lon0, m)
           IN  /\ call' = [op |-> "latlon_to_scrip", nx |-> nx, ny |-> ny,
                           lon0 |-> lon0, grid_imask |-> m, result |-> ds]
               /\ pc' = IF ds.raised = "none" THEN "returned" ELSE "raised"
    /\ UNCHANGED <<file_vars, self_vars, errstate>>

NextGrid == Generate \/ Collect

SpecGrid == InitGrid /\ [][NextGrid]_vars

\* ---------------------------------------------- weight application spec
\* shape_in and shape_out given to esmf_apply_weights.
ApplyShapes == {<<1, 2>>, <<2, 1>>, <<1, 1>>}

\* The arrays given to esmf_apply_weights.
ApplyFields ==
    UNION {Arrays(sh, DataValues)
           \cup Arrays(LeadShape \o sh, {NaN, Num(FloatMax)}) : sh \in ApplyShapes}

\* A weight operator of one or two rows and two columns, and no regridder.
InitApply ==
    /\ src_grid_file = NoFile
    /\ dst_grid_file = NoFile
    /\ \E n_dst \in 1..2 : \E mf \in WeightFiles(n_dst, 2) :
        /\ weight_file = mf
        /\ weights = coo_matrix(mf.S, [t \in 1..Len(mf.row) |-> mf.row[t] - 1],
                                [t \in 1..Len(mf.col) |-> mf.col[t] - 1], <<n_dst, 2>>)
    /\ dims_src = <<>>
    /\ dims_dst = <<>>
    /\ mask_dst = <<>>
    /\ errstate = ErrDefault
    /\ pc = "idle"
    /\ call = NoCall

\* One call of esmf_apply_weights(weights, indata, shape_in, shape_out).
Apply ==
    /\ pc = "idle"
    /\ \E indata \in ApplyFields, shape_in \in ApplyShapes, shape_out \in ApplyShapes :
           LET r == esmf_apply_weights(weights, indata, shape_in, shape_out)
           IN  /\ call' = [op |-> "esmf_apply_weights", indata |-> indata,
                           shape_in |-> shape_in, shape_out |-> shape_out, result |-> r]
               /\ pc' = IF r.raised = "none" THEN "returned" ELSE "raised"
    /\ UNCHANGED <<file_vars, self_vars, errstate>>

NextApply == Apply \/ Collect

SpecApply == InitApply /\ [][NextApply]_vars

\* =================================================================
\* The claims.  Cells are numbered by their flat index: destination cell
\* (j, i) of a grid of nx columns is cell j * nx + i.
\* =================================================================
Regridding == call.op = "regrid_dataarray"
Regridded == Regridding /\ pc = "returned"

\* Cell counts of the two grids, from the grid files.
NSrc == src_grid_file.grid_dims[1] * src_grid_file.grid_dims[2]
NDst == dst_grid_file.grid_dims[1] * dst_grid_file.grid_dims[2]

\* The leading indices of the field given to the call, 0-based.
Leading == 0..((Len(call.da_in.flat) \div NSrc) - 1)

\* The field given to the call has the source grid's horizontal shape.
RightShape == ShapeHoriz(call.da_in.shape) = Reverse(src_grid_file.grid_dims)

\* The weight operator of the weight file, applied to a vector X over the
\* source cells 1..NSrc: its value at destination cell r (1-based), the
\* triplets 1..t taken in file order.
RECURSIVE WeightOp(_, _, _)
WeightOp(r, X(_), t) ==
    IF t = 0 THEN Zero
    ELSE IF weight_file.row[t] = r
         THEN FAdd(WeightOp(r, X, t - 1), FMul(weight_file.S[t], X(weight_file.col[t])))
         ELSE WeightOp(r, X, t - 1)

\* Source cell c (1-based) of leading slice e of the field given to the call.
Source(e, c) == call.da_in.flat[e * NSrc + c]

\* raw: the weight operator applied to the source with NaN replaced by 0.
Raw(e, r) ==
    LET X(c) == IF IsNaN(Source(e, c)) THEN Zero ELSE Source(e, c)
    IN  WeightOp(r, X, Len(weight_file.row))

\* coverage: the weight operator applied to the indicator of the finite cells.
Coverage(e, r) ==
    LET X(c) == IF IsNaN(Source(e, c)) THEN Zero ELSE One
    IN  WeightOp(r, X, Len(weight_file.row))

\* The value of destination cell r of slice e before the mask, and returned.
Computed(e, r) == call.result.data_dst.flat[e * NDst + r]
Output(e, r) == call.result.da_out.flat[e * NDst + r]

\* C1 (as stated): with renormalize=True, wherever the coverage is not zero
\* the value before masking is raw / coverage.
C1_NonZeroCoverageDivides ==
    (Regridded /\ call.renormalize) =>
        \A e \in Leading, r \in 1..NDst :
            Coverage(e, r) # Zero => Computed(e, r) = FDiv(Raw(e, r), Coverage(e, r))

\* C1 (amended): with renormalize=True, wherever the coverage is strictly
\* positive the value before masking is raw / coverage.
C1_PositiveCoverageDivides ==
    (Regridded /\ call.renormalize) =>
        \A e \in Leading, r \in 1..NDst :
            GtZero(Coverage(e, r)) => Computed(e, r) = FDiv(Raw(e, r), Coverage(e, r))

\* C1 witness: a renormalized call returned, for one cell, a finite value
\* that the division by a coverage other than 1 changed, and for one cell a
\* finite non-zero value although a missing source cell contributes to it.
C1_Witness ==
    /\ Regridded /\ call.renormalize
    /\ \E e \in Leading, r \in 1..NDst :
        /\ GtZero(Coverage(e, r)) /\ Coverage(e, r) # One
        /\ IsFinite(Computed(e, r)) /\ Computed(e, r) # Raw(e, r)
    /\ \E e \in Leading, r \in 1..NDst :
        /\ GtZero(Coverage(e, r))
        /\ IsFinite(Computed(e, r)) /\ Computed(e, r) # Zero
        /\ \E t \in 1..Len(weight_file.row) :
               weight_file.row[t] = r /\ IsNaN(Source(e, weight_file.col[t]))

\* C2: with renormalize=True (and numpy's default error settings at entry) a
\* call on a field of the right shape returns, and every destination cell
\* of zero coverage is NaN in the result.
C2_ZeroCoverageIsNaN ==
    (Regridding /\ call.renormalize /\ RightShape /\ call.err_entry = ErrDefault) =>
        /\ pc = "returned"
        /\ \A e \in Leading, r \in 1..NDst :
               Coverage(e, r) = Zero => IsNaN(Output(e, r))

\* C3: where apply_mask=True and grid_imask is 0 the output is NaN; where
\* grid_imask is 1, or apply_mask=False, it is the computed value.
C3_MaskApplied ==
    Regridded =>
        \A e \in Leading :
        \A j \in 0..(dst_grid_file.grid_dims[2] - 1) :
        \A i \in 0..(dst_grid_file.grid_dims[1] - 1) :
            LET r == j * dst_grid_file.grid_dims[1] + i + 1
                m == dst_grid_file.grid_imask[r]
            IN  /\ (call.apply_mask /\ m = 0) => IsNaN(Output(e, r))
                /\ (m = 1 \/ ~call.apply_mask) => Output(e, r) = Computed(e, r)

\* C3 witness: a call with apply_mask=True returned NaN in a masked cell
\* whose computed value was a number, and a number in an unmasked cell.
C3_Witness ==
    /\ Regridded /\ call.apply_mask
    /\ \E e \in Leading, r \in 1..NDst :
        /\ dst_grid_file.grid_imask[r] = 0
        /\ IsFinite(Computed(e, r)) /\ IsNaN(Output(e, r))
    /\ \E e \in Leading, r \in 1..NDst :
        /\ dst_grid_file.grid_imask[r] = 1
        /\ IsFinite(Output(e, r)) /\ Output(e, r) # Zero

\* The regridder maps a grid onto itself: equal dimensions, nothing masked,
\* and the identity weight table (row k, col k, S = 1 for k = 1..nx*ny).
IdentityRegridder ==
    /\ src_grid_file.grid_dims = dst_grid_file.grid_dims
    /\ \A r \in 1..NDst : dst_grid_file.grid_imask[r] = 1
    /\ weight_file = [row |-> [k \in 1..NDst |-> k],
                      col |-> [k \in 1..NDst |-> k],
                      S |-> [k \in 1..NDst |-> One]]

\* C4: an identity regridder called with the default flags on a finite field
\* of the source shape returns the field unchanged.
C4_IdentityReturnsInput ==
    (/\ Regridding /\ IdentityRegridder /\ RightShape
     /\ call.renormalize /\ call.apply_mask
     /\ \A k \in 1..Len(call.da_in.flat) : IsFinite(call.da_in.flat[k])) =>
        /\ pc = "returned"
        /\ call.result.da_out.shape = call.da_in.shape
        /\ call.result.da_out.flat = call.da_in.flat

\* C6: a field whose last two dimensions are not the source dimensions makes
\* the call fail with the shape-mismatch error, before the weight operator
\* is applied and with no output.
C6_ShapeMismatchRaised ==
    (Regridding /\ ~RightShape) =>
        /\ pc = "raised"
        /\ call.result.raised = "AssertionError"
        /\ call.result.napplied = 0
        /\ call.result.da_out = NoArray

C10_ErrSettingsRestored ==
    Regridding => errstate = call.err_entry

\* ------------------------------------------------ esmf_apply_weights
Applying == call.op = "esmf_apply_weights"

\* The preconditions of esmf_apply_weights on the shapes.
ShapesAgree ==
    /\ ShapeHoriz(call.indata.shape) = call.shape_in
    /\ call.shape_in[1] * call.shape_in[2] = weights.shape[2]
    /\ call.shape_out[1] * call.shape_out[2] = weights.shape[1]

\* weights[r, k] (0-based) as a dense matrix: the sum of the entries stored
\* at (r, k), 0 when none is.
RECURSIVE Dense(_, _, _)
Dense(r, k, t) ==
    IF t = 0 THEN Zero
    ELSE IF weights.row[t] = r /\ weights.col[t] = k
         THEN FAdd(Dense(r, k, t - 1), weights.data[t])
         ELSE Dense(r, k, t - 1)

\* sum over the source flat indices 0..k-1 of weights[r, k] * indata[e, k]
RECURSIVE DenseSum(_, _, _)
DenseSum(e, r, k) ==
    IF k = 0 THEN Zero
    ELSE FAdd(DenseSum(e, r, k - 1),
              FMul(Dense(r, k - 1, Len(weights.data)),
                   call.indata.flat[e * weights.shape[2] + k]))

\* C5: when the shapes agree, esmf_apply_weights returns an array of the
\* leading dimensions followed by shape_out, with
\* out[e, j, i] = sum over k of weights[j * shape_out[1] + i, k] * indata[e, k].
C5_AppliesWeights ==
    (Applying /\ ShapesAgree) =>
        /\ pc = "returned"
        /\ call.result.value.shape = ExtraShape(call.indata.shape) \o call.shape_out
        /\ \A e \in 0..((Len(call.indata.flat) \div weights.shape[2]) - 1) :
           \A r \in 0..(weights.shape[1] - 1) :
               call.result.value.flat[e * weights.shape[1] + r + 1]
                   = DenseSum(e, r, weights.shape[2])

\* C7: an input that is not C-contiguous, of agreeing shapes, is not fatal:
\* the call warns and returns what it returns for the contiguous array.
C7_LayoutWarningNonFatal ==
    (Applying /\ ShapesAgree /\ ~C_CONTIGUOUS(call.indata)) =>
        /\ pc = "returned"
        /\ call.result.warned
        /\ call.result.value =
               esmf_apply_weights(weights, [call.indata EXCEPT !.layout = "C"],
                                  call.shape_in, call.shape_out).value

\* ------------------------------------------------------ latlon_to_scrip
Generated == call.op = "latlon_to_scrip"

\* C9: for nx, ny > 0 the grid has grid_dims [nx, ny] and ny*nx cells, and
\* cell j*nx+i has center latitude -90 + dy/2 + j*dy and center longitude
\* lon0 + dx/2 + i*dx, with dx = 360/nx and dy = 180/ny.
C9_CellCenters ==
    Generated =>
        /\ pc = "returned"
        /\ call.result.grid_dims = <<call.nx, call.ny>>
        /\ Len(call.result.grid_center_lat) = call.ny * call.nx
        /\ Len(call.result.grid_center_lon) = call.ny * call.nx
        /\ \A j \in 0..(call.ny - 1), i \in 0..(call.nx - 1) :
            /\ call.result.grid_center_lat[j * call.nx + i + 1]
                   = Round(-90 * call.ny + 90 + 180 * j, call.ny)
            /\ call.result.grid_center_lon[j * call.nx + i + 1]
                   = FAdd(call.lon0, Round(180 + 360 * i, call.nx))

\* C9 witness: the 4 x 2 grid with lon0 = -180 was generated, with center
\* latitudes {-45, 45} and center longitudes {-135, -45, 45, 135}.
C9_Witness ==
    /\ Generated /\ pc = "returned"
    /\ call.nx = 4 /\ call.ny = 2 /\ call.lon0 = Num(-180)
    /\ {call.result.grid_center_lat[k] : k \in 1..8} = {Num(-45), Num(45)}
    /\ {call.result.grid_center_lon[k] : k \in 1..8}
           = {Num(-135), Num(-45), Num(45), Num(135)}

====
